---- MODULE Spec2Model ----
(***************************************************************************)
(* Zero-copy yamux frame header overlay (src/src/main.rs).                 *)
(*                                                                         *)
(* The buffer handed to Frame::parse is the variable `bytes`.  A Frame is  *)
(* a view on it: its header is a Ref to a region of `bytes`, its body is   *)
(* the remaining slice of `bytes`.  Every field read or write through the  *)
(* Frame goes to `bytes`, so aliasing is part of the model.                *)
(***************************************************************************)
EXTENDS Integers, Sequences, FiniteSets, TLC

VARIABLES
    bytes,      \* the caller's buffer (a sequence of u8)
    frame,      \* the result of Frame::parse: None or a view on bytes
    pc,         \* "unparsed" | "parsed" | "failed"
    inp,        \* the field values the caller encoded into bytes
    first,      \* what the first successful parse of the buffer exposed
    lastTag,    \* the Tag of the last set_tag call, "none" before any
    parses,     \* number of Frame::parse calls on the buffer
    sets,       \* number of set_tag calls on the live Frame
    hdr,        \* the last Header built by Header::data
    dataArgs    \* the (id, len) that Header::data was called with

vars == <<bytes, frame, pc, inp, first, lastTag, parses, sets, hdr, dataArgs>>

----------------------------------------------------------------------------
(* Bounds of the model *)

MaxBody == 3
MaxParses == 2
MaxSets == 2

----------------------------------------------------------------------------
(* Integer widths and byte order (zerocopy network_endian U16 / U32) *)

U8MAX == 255

\* The i-th byte (0 = least significant) of v.
ByteOf(v, i) == (v \div (256 ^ i)) % 256

\* U16::from(u16): stored most significant byte first.
U16_new(v) == <<ByteOf(v, 1), ByteOf(v, 0)>>

\* U16::get
U16_get(b) == b[1] * 256 + b[2]

\* A u32 is kept as its two 16-bit halves <<hi, lo>> (value hi * 65536 + lo),
\* so that the whole range 0 .. 2^32 - 1 is representable.
U16MAX == 65535
U32(hi, lo) == <<hi, lo>>
\* The u32 of a small natural number.
U32Of(n) == U32(n \div 65536, n % 65536)

\* U32::from(u32): stored most significant byte first.
U32_new(v) == <<ByteOf(v[1], 1), ByteOf(v[1], 0), ByteOf(v[2], 1), ByteOf(v[2], 0)>>

U32_get_le(b) == U32(b[4] * 256 + b[3], b[2] * 256 + b[1])
\* U32::get
U32_get(b) == U32(b[1] * 256 + b[2], b[3] * 256 + b[4])

----------------------------------------------------------------------------
(* Tag *)

Tags == {"Data", "WindowUpdate", "Ping", "GoAway"}

TagAsU8_shifted(tag) ==
    CASE tag = "Data" -> 1
      [] tag = "WindowUpdate" -> 2
      [] tag = "Ping" -> 3
      [] tag = "GoAway" -> 4
\* `tag as u8`: the discriminant, in declaration order.
TagAsU8(tag) ==
    CASE tag = "Data" -> 0
      [] tag = "WindowUpdate" -> 1
      [] tag = "Ping" -> 2
      [] tag = "GoAway" -> 3

Err == [ok |-> FALSE, tag |-> "none"]
Ok(tag) == [ok |-> TRUE, tag |-> tag]

try_from_lax(value) ==
    CASE value = 0 -> Ok("Data")
      [] value = 1 -> Ok("WindowUpdate")
      [] value = 2 -> Ok("Ping")
      [] value = 3 -> Ok("GoAway")
      [] value = 4 -> Ok("GoAway")
      [] OTHER -> Err
\* impl TryFrom<u8> for Tag
try_from(value) ==
    CASE value = 0 -> Ok("Data")
      [] value = 1 -> Ok("WindowUpdate")
      [] value = 2 -> Ok("Ping")
      [] value = 3 -> Ok("GoAway")
      [] OTHER -> Err

----------------------------------------------------------------------------
(* Header layout: #[repr(packed)], fields in declaration order *)

SIZE_VERSION == 1
SIZE_TAG == 1
SIZE_FLAGS == 2
SIZE_STREAM_ID == 4
SIZE_LEN == 4

OFF_VERSION == 0
OFF_TAG == OFF_VERSION + SIZE_VERSION
OFF_FLAGS == OFF_TAG + SIZE_TAG
OFF_STREAM_ID == OFF_FLAGS + SIZE_FLAGS
OFF_LENGTH == OFF_STREAM_ID + SIZE_STREAM_ID
\* size_of::<Header<T>>(); PhantomData is zero-sized
HEADER_SIZE == OFF_LENGTH + SIZE_LEN

\* The k bytes of memory m starting at byte offset off.
Slice(m, off, k) == SubSeq(m, off + 1, off + k)

\* StreamId::new
StreamId_new(val) == U32_new(val)
\* StreamId::val
StreamId_val(sid) == U32_get(sid)
\* Len::val
Len_val(len) == U32_get(len)

\* A Header value: every field in its stored representation.
MkHeader(v, t, f, s, l) ==
    [version |-> v, tag |-> t, flags |-> f, stream_id |-> s, length |-> l]

\* AsBytes for the packed Header.
as_bytes(h) == <<h.version, h.tag>> \o h.flags \o h.stream_id \o h.length

data_swapped(id, len) ==
    MkHeader(0, TagAsU8("Data"), U16_new(0), U32_new(len), id)
\* Header::<Data>::data
data(id, len) ==
    MkHeader(0, TagAsU8("Data"), U16_new(0), id, U32_new(len))

----------------------------------------------------------------------------
(* Frame: Ref<B, Header<T>> + body B, both views on the buffer *)

None == [some |-> FALSE, header |-> 0, body |-> [off |-> 0, len |-> 0]]
Some(h, b) == [some |-> TRUE, header |-> h, body |-> b]

new_from_prefix_unchecked(m) ==
    IF Len(m) < OFF_TAG + SIZE_TAG
    THEN None
    ELSE Some(0, [off |-> HEADER_SIZE, len |-> Len(m) - HEADER_SIZE])
new_from_prefix_late(m) ==
    IF Len(m) < HEADER_SIZE
    THEN None
    ELSE Some(0, [off |-> HEADER_SIZE + 1, len |-> Len(m) - (HEADER_SIZE + 1)])
\* Ref::new_from_prefix: None when the slice is shorter than the header (the
\* packed header has alignment 1); otherwise the header region and the rest.
new_from_prefix(m) ==
    IF Len(m) < HEADER_SIZE
    THEN None
    ELSE Some(0, [off |-> HEADER_SIZE, len |-> Len(m) - HEADER_SIZE])

\* Field reads through the Ref (frame.header.<field>), on memory m.
header_version(m, fr) == m[fr.header + OFF_VERSION + 1]
header_tag(m, fr) == m[fr.header + OFF_TAG + 1]
header_flags(m, fr) == Slice(m, fr.header + OFF_FLAGS, SIZE_FLAGS)
header_stream_id(m, fr) == Slice(m, fr.header + OFF_STREAM_ID, SIZE_STREAM_ID)
header_length_misplaced(m, fr) == Slice(m, fr.header + OFF_STREAM_ID, SIZE_LEN)
header_length(m, fr) == Slice(m, fr.header + OFF_LENGTH, SIZE_LEN)

\* frame.body
body(m, fr) == Slice(m, fr.body.off, fr.body.len)

parse_strict(m) ==
    LET fr == new_from_prefix(m) IN
    IF ~fr.some THEN None
    ELSE IF try_from(header_tag(m, fr)).ok
              /\ Len_val(header_length(m, fr)) = U32Of(fr.body.len)
         THEN fr
         ELSE None
\* Frame::parse
parse(m) ==
    LET fr == new_from_prefix(m) IN
    IF ~fr.some THEN None
    ELSE IF try_from(header_tag(m, fr)).ok THEN fr ELSE None

\* Frame::version
version(m, fr) == header_version(m, fr)
\* Frame::length
length(m, fr) == header_length(m, fr)

set_tag_wrong_offset(m, fr, tag) ==
    [m EXCEPT ![fr.header + OFF_VERSION + 1] = TagAsU8(tag)]
\* Frame::set_tag: the buffer after self.header.tag = tag as u8
set_tag(m, fr, tag) ==
    [m EXCEPT ![fr.header + OFF_TAG + 1] = TagAsU8(tag)]

----------------------------------------------------------------------------
(* Inputs *)

Versions == {0, 1, U8MAX}
TagBytes == {0, 1, 2, 3, 4, U8MAX}
FlagVals == {0, 256}
StreamIds == {U32(0, 1), U32(258, 772), U32(U16MAX, U16MAX)}
Lengths == {U32(0, 0), U32(0, 3), U32(258, 772), U32(U16MAX, U16MAX)}
BodyStarts == {1, 254}
U32Samples ==
    {U32(0, 0), U32(0, 1), U32(0, 3), U32(0, 255), U32(0, 256), U32(0, U16MAX),
     U32(1, 0), U32(258, 772), U32(32768, 0), U32(U16MAX, U16MAX)}

\* k payload bytes counting up from start, wrapping at 256.
Payload(start, k) == [i \in 1..k |-> (start + i - 1) % 256]

\* The buffer of main().
ExampleBytes == <<1, 2, 1, 0, 0, 0, 0, 1, 0, 0, 0, 3, 1, 2, 3>>

NoHeader == [built |-> FALSE, h |-> <<>>]

\* Nothing parsed yet / the buffer and the Frame of the first successful parse.
NoSnap == [set |-> FALSE, mem |-> <<>>, fr |-> None]
Snapshot(m, fr) == [set |-> TRUE, mem |-> m, fr |-> fr]

----------------------------------------------------------------------------
(* State machine *)

\* The caller holds a buffer: a header written in the wire layout followed by
\* a body, or only the first n bytes of such a header.
Init ==
    /\ \E v \in Versions, t \in TagBytes, f \in FlagVals,
          s \in StreamIds, l \in Lengths :
         LET h == as_bytes(MkHeader(v, t, U16_new(f), StreamId_new(s), U32_new(l)))
         IN  \/ \E st \in BodyStarts, k \in 0..MaxBody :
                  /\ bytes = h \o Payload(st, k)
                  /\ inp = [version |-> v, tag |-> t, flags |-> f, stream_id |-> s,
                            length |-> l, body |-> Payload(st, k), full |-> TRUE]
             \/ \E n \in 0..(Len(h) - 1) :
                  /\ bytes = SubSeq(h, 1, n)
                  /\ inp = [version |-> v, tag |-> t, flags |-> f, stream_id |-> s,
                            length |-> l, body |-> <<>>, full |-> FALSE]
    /\ frame = None
    /\ pc = "unparsed"
    /\ first = NoSnap
    /\ lastTag = "none"
    /\ parses = 0
    /\ sets = 0
    /\ hdr = NoHeader
    /\ dataArgs = <<U32(0, 0), U32(0, 0)>>

\* Frame::parse(&mut bytes[..])
Parse ==
    /\ pc = "unparsed"
    /\ parses < MaxParses
    /\ frame' = parse(bytes)
    /\ pc' = IF frame'.some THEN "parsed" ELSE "failed"
    /\ first' = IF ~first.set /\ frame'.some
                THEN Snapshot(bytes, frame') ELSE first
    /\ parses' = parses + 1
    /\ sets' = 0
    /\ UNCHANGED <<bytes, inp, lastTag, hdr, dataArgs>>

\* frame.set_tag(tag)
SetTag(tag) ==
    /\ pc = "parsed"
    /\ sets < MaxSets
    /\ bytes' = set_tag(bytes, frame, tag)
    /\ lastTag' = tag
    /\ sets' = sets + 1
    /\ UNCHANGED <<frame, pc, inp, first, parses, hdr, dataArgs>>

\* The Frame goes out of scope; the borrow of the buffer ends.
Drop ==
    /\ pc = "parsed"
    /\ frame' = None
    /\ pc' = "unparsed"
    /\ UNCHANGED <<bytes, inp, first, lastTag, parses, sets, hdr, dataArgs>>

Next ==
    \/ Parse
    \/ \E tag \in Tags : SetTag(tag)
    \/ Drop

Spec == Init /\ [][Next]_vars

\* Header::data(StreamId::new(id), len)
BuildData(id, len) ==
    /\ hdr' = [built |-> TRUE, h |-> data(StreamId_new(id), len)]
    /\ dataArgs' = <<id, len>>
    /\ UNCHANGED <<bytes, frame, pc, inp, first, lastTag, parses, sets>>

InitData ==
    /\ bytes = ExampleBytes
    /\ inp = [version |-> 1, tag |-> 2, flags |-> 256, stream_id |-> U32(0, 1),
              length |-> U32(0, 3), body |-> <<1, 2, 3>>, full |-> TRUE]
    /\ frame = None
    /\ pc = "unparsed"
    /\ first = NoSnap
    /\ lastTag = "none"
    /\ parses = 0
    /\ sets = 0
    /\ hdr = NoHeader
    /\ dataArgs = <<U32(0, 0), U32(0, 0)>>

NextData == \E id \in U32Samples, len \in U32Samples : BuildData(id, len)

SpecData == InitData /\ [][NextData]_vars

----------------------------------------------------------------------------
(* Properties *)

\* Frame::parse has returned (Some or None) for the buffer as it now stands.
Returned == pc \in {"parsed", "failed"}

\* The tag byte of the buffer, read from the buffer itself (offset 1).
RawTag == bytes[2]
ValidRawTags == {0, 1, 2, 3}

\* The big-endian u32 of four bytes, as <<high half, low half>>.
BigEndian(b1, b2, b3, b4) == <<b1 * 256 + b2, b3 * 256 + b4>>

\* C1 as stated: Frame::parse returns None for every buffer of length 0..12,
\* whatever its bytes.
C1_ShortRejectedUpTo12 ==
    (Returned /\ Len(bytes) <= 12) => (frame = None /\ pc = "failed")

\* C1 amended: Frame::parse returns None for every buffer of length 0..11,
\* whatever its bytes, a valid tag byte at offset 1 included.
C1_ShortRejected ==
    (Returned /\ Len(bytes) <= 11) => (frame = None /\ pc = "failed")

C1_Witness ==
    /\ pc = "failed"
    /\ Len(bytes) = 11
    /\ RawTag \in ValidRawTags

\* C2: a buffer long enough to hold a header whose tag byte is 4..255 is
\* rejected, so no Frame ever has a tag byte outside {0,1,2,3}.
C2_TagRejected ==
    /\ (Returned /\ Len(bytes) >= HEADER_SIZE /\ RawTag \notin ValidRawTags)
          => (frame = None /\ pc = "failed")
    /\ frame.some => RawTag \in ValidRawTags

C2_Witness ==
    /\ pc = "failed"
    /\ Len(bytes) > HEADER_SIZE
    /\ RawTag = U8MAX

\* C3: the result of Frame::parse for a too-short buffer differs from its
\* result for a long-enough buffer with an invalid tag byte.
C3_FailuresDistinguished ==
    (pc = "failed" /\ Len(bytes) < HEADER_SIZE)
        => \A t \in TagBytes \ ValidRawTags :
               parse([ExampleBytes EXCEPT ![2] = t]) # frame

\* C4: a header written in the wire layout from (version, tag, flags,
\* stream_id, length) with a valid tag parses to a Frame whose header fields,
\* version() and length().val() are the values written.
C4_RoundTrip ==
    (inp.full /\ inp.tag \in ValidRawTags /\ Returned /\ lastTag = "none")
        => /\ pc = "parsed"
           /\ frame.some
           /\ version(bytes, frame) = inp.version
           /\ header_tag(bytes, frame) = inp.tag
           /\ U16_get(header_flags(bytes, frame)) = inp.flags
           /\ StreamId_val(header_stream_id(bytes, frame)) = inp.stream_id
           /\ Len_val(length(bytes, frame)) = inp.length

C4_Witness ==
    /\ pc = "parsed"
    /\ lastTag = "none"
    /\ inp.full
    /\ inp.version = U8MAX
    /\ inp.flags = 256
    /\ inp.stream_id = U32(258, 772)
    /\ inp.length = U32(U16MAX, U16MAX)
    /\ Len_val(length(bytes, frame)) = U32(U16MAX, U16MAX)

\* C5 as stated: the body of an accepted buffer of length L has length L - 13
\* and starts with the buffer's byte at offset 13.
C5_BodyAfter13 ==
    frame.some =>
        /\ Len(body(bytes, frame)) = Len(bytes) - 13
        /\ (body(bytes, frame) # <<>> => body(bytes, frame)[1] = bytes[14])

\* C5 amended: the body of an accepted buffer of length L has length L - 12
\* and is the buffer's suffix from offset 12 on, in order.
C5_BodyAliasing ==
    frame.some =>
        /\ frame.body.len = Len(bytes) - 12
        /\ Len(body(bytes, frame)) = Len(bytes) - 12
        /\ body(bytes, frame) = [i \in 1..(Len(bytes) - 12) |-> bytes[12 + i]]
        /\ (body(bytes, frame) # <<>> => body(bytes, frame)[1] = bytes[13])

C5_Witness ==
    /\ frame.some
    /\ Len(bytes) = 15
    /\ body(bytes, frame) = <<254, 255, 0>>

\* C6: set_tag(t) makes the buffer's byte at offset 1 the discriminant of t
\* and leaves every other byte of the buffer, and its length, unchanged.
C6_SetTagInPlace ==
    [][(sets' = sets + 1) =>
          /\ lastTag' \in Tags
          /\ bytes'[2] = (CASE lastTag' = "Data" -> 0
                            [] lastTag' = "WindowUpdate" -> 1
                            [] lastTag' = "Ping" -> 2
                            [] lastTag' = "GoAway" -> 3)
          /\ Len(bytes') = Len(bytes)
          /\ \A i \in 1..Len(bytes) : i # 2 => bytes'[i] = bytes[i]]_vars

C6_Witness ==
    /\ pc = "parsed"
    /\ sets = 1
    /\ lastTag = "GoAway"
    /\ RawTag = 3
    /\ first.mem[2] = 2
    /\ Len(bytes) > HEADER_SIZE

\* C7: for an accepted buffer, version() is the byte at offset 0 and
\* length().val() is the big-endian u32 of the bytes at offsets 8..11; the
\* 15-byte example parses to version 1, tag 2, stream_id 1, length 3 and
\* body 01 02 03.
C7_Accessors ==
    /\ frame.some =>
          /\ version(bytes, frame) = bytes[1]
          /\ Len_val(length(bytes, frame))
                = BigEndian(bytes[9], bytes[10], bytes[11], bytes[12])
    /\ (Returned /\ bytes = ExampleBytes) =>
          /\ frame.some
          /\ version(bytes, frame) = 1
          /\ header_tag(bytes, frame) = 2
          /\ StreamId_val(header_stream_id(bytes, frame)) = <<0, 1>>
          /\ Len_val(length(bytes, frame)) = <<0, 3>>
          /\ body(bytes, frame) = <<1, 2, 3>>
          /\ Len(body(bytes, frame)) = 3

C7_Witness ==
    /\ pc = "parsed"
    /\ bytes = ExampleBytes
    /\ lastTag = "none"

\* C8: Header::data(id, len) has version 0, tag 0, flags 0, stream_id id and
\* length len, stored as 00 00 00 00, then id and len most significant byte
\* first.
C8_DataHeader ==
    hdr.built =>
        LET id == dataArgs[1]
            len == dataArgs[2]
        IN  /\ hdr.h.version = 0
            /\ hdr.h.tag = 0
            /\ U16_get(hdr.h.flags) = 0
            /\ StreamId_val(hdr.h.stream_id) = id
            /\ Len_val(hdr.h.length) = len
            /\ as_bytes(hdr.h) =
                 <<0, 0, 0, 0,
                   id[1] \div 256, id[1] % 256, id[2] \div 256, id[2] % 256,
                   len[1] \div 256, len[1] % 256, len[2] \div 256, len[2] % 256>>

C8_Witness ==
    /\ hdr.built
    /\ dataArgs = <<U32(258, 772), U32(32768, 0)>>
    /\ as_bytes(hdr.h) = <<0, 0, 0, 0, 1, 2, 3, 4, 128, 0, 0, 0>>

\* C9: every buffer at least header-sized with a tag byte in {0,1,2,3} is
\* accepted whatever its other bytes, also when the length field differs
\* from the number of body bytes, and the body is the whole remainder.
C9_AcceptsAnyLength ==
    (Returned /\ Len(bytes) >= HEADER_SIZE /\ RawTag \in ValidRawTags)
        => /\ pc = "parsed"
           /\ frame.some
           /\ body(bytes, frame) = SubSeq(bytes, HEADER_SIZE + 1, Len(bytes))

C9_Witness ==
    /\ pc = "parsed"
    /\ Len_val(length(bytes, frame)) = U32Of(0)
    /\ Len(body(bytes, frame)) = 3

\* C10: once a buffer was accepted, its tag byte stays in {0,1,2,3} through
\* any set_tag calls; parsing it again after the Frame was dropped succeeds
\* with the same version, flags, stream_id, length and body, and with the
\* tag last set.
C10_TagStaysValid ==
    /\ first.set => RawTag \in ValidRawTags
    /\ (first.set /\ lastTag # "none") => RawTag = TagAsU8(lastTag)
    /\ (first.set /\ parses >= 2 /\ Returned) =>
          /\ pc = "parsed"
          /\ frame.some
          /\ version(bytes, frame) = version(first.mem, first.fr)
          /\ header_flags(bytes, frame) = header_flags(first.mem, first.fr)
          /\ header_stream_id(bytes, frame) = header_stream_id(first.mem, first.fr)
          /\ length(bytes, frame) = length(first.mem, first.fr)
          /\ body(bytes, frame) = body(first.mem, first.fr)
          /\ (lastTag # "none" => header_tag(bytes, frame) = TagAsU8(lastTag))
          /\ (lastTag = "none" =>
                 header_tag(bytes, frame) = header_tag(first.mem, first.fr))

C10_Witness ==
    /\ pc = "parsed"
    /\ parses = 2
    /\ sets = 0
    /\ lastTag = "GoAway"
    /\ header_tag(first.mem, first.fr) = 0
    /\ header_tag(bytes, frame) = 3
    /\ Len(body(bytes, frame)) = 3

====
